---- MODULE Spec2Model ----
(***************************************************************************)
(* Model of the tvx conformance tooling of lotus:                          *)
(*   - tipset extraction  (doExtractTipset, extractTipsetRange,            *)
(*     extractTipset)                                                      *)
(*   - test vector replay (runExec, execVectorDir, execVectorsStdin,       *)
(*     execVectorFile, executeTestVector)                                  *)
(* Each command is a sequential program; the model follows its control     *)
(* flow statement by statement with a program counter.                     *)
(***************************************************************************)
EXTENDS Integers, Sequences, FiniteSets, TLC

(***************************************************************************)
(* Bounds                                                                  *)
(***************************************************************************)
\* tipsets on the main chain of the modelled chain store
ChainLen == 3
\* longest tipset reference (in characters) given on the command line
MaxTskLen == 4
\* results the execution engine may report as applied for one tipset
MaxApplied == 2

(***************************************************************************)
(* The chain store behind the chain-data client (FullAPI).                 *)
(* Tipsets 1..ChainLen form the main chain, each the parent of the next;   *)
(* tipset ChainLen+1 is a fork child of tipset 1.  0 is the nil *TipSet.   *)
(***************************************************************************)
NilTs == 0

ForkTs == ChainLen + 1

TipSets == 1..ForkTs

\* types.TipSet.Parents, as the tipset the parent key names (NilTs: none stored)
Parents(t) == IF t = ForkTs THEN 1 ELSE t - 1

\* types.TipSet.Height; null rounds make heights differ from the chain index
Height(t) == IF t = ForkTs THEN 9 ELSE 4 * t + 3

\* types.TipSet.Key
Key(t) == t

\* types.TipSet.ParentState
ParentState(t) == <<"state", Parents(t)>>

\* the state root the execution engine reaches from ParentState(t)
PostStateRoot(t) == <<"state", t>>

\* number of blocks of a tipset
NumBlocks(t) == IF t = 2 THEN 2 ELSE 1

(***************************************************************************)
(* Strings are sequences of one-character strings.                         *)
(***************************************************************************)
Dot == "."

DigitChars == <<"0", "1", "2", "3", "4", "5", "6", "7", "8", "9">>

\* the characters a tipset reference is made of
TskChars == {DigitChars[t + 1] : t \in TipSets} \cup {Dot}

RECURSIVE StringsUpTo(_, _)
StringsUpTo(chars, n) ==
    IF n = 0 THEN {<<>>}
    ELSE LET shorter == StringsUpTo(chars, n - 1)
         IN  shorter \cup {Append(s, c) : s \in {x \in shorter : Len(x) = n - 1}, c \in chars}

\* references of three well-formed parts, "a..b..c"
ThreePartRefs ==
    {<<DigitChars[a + 1], Dot, Dot, DigitChars[b + 1], Dot, Dot, DigitChars[c + 1]>> :
        a \in TipSets, b \in TipSets, c \in TipSets}

\* the tipset references given to the command
TskInputs == StringsUpTo(TskChars, MaxTskLen) \cup ThreePartRefs

\* abi.ChainEpoch.String: decimal digits, most significant first
RECURSIVE EpochString(_)
EpochString(n) ==
    IF n < 10 THEN <<DigitChars[n + 1]>>
    ELSE Append(EpochString(n \div 10), DigitChars[(n % 10) + 1])

\* strings.Split(s, ".."): cut at each non-overlapping "..", scanning left to right
RECURSIVE SplitFrom(_, _, _)
SplitFrom(s, i, cur) ==
    IF i > Len(s) THEN <<cur>>
    ELSE IF i < Len(s) /\ s[i] = Dot /\ s[i + 1] = Dot
         THEN <<cur>> \o SplitFrom(s, i + 2, <<>>)
         ELSE SplitFrom(s, i + 1, Append(cur, s[i]))

Split(s) == SplitFrom(s, 1, <<>>)

\* filepath.Join(dir, name) for a one-element name
Join(dir, name) == Append(dir, name)

\* a naming that drops the extension
EpochNameBare(t, ext) == [prefix |-> "epoch-", height |-> EpochString(Height(t)), ext |-> ""]

\* "epoch-" + height.String() + ext
EpochName(t, ext) == [prefix |-> "epoch-", height |-> EpochString(Height(t)), ext |-> ext]

(***************************************************************************)
(* lcli.ParseTipSetRef: the tipset a reference names, NilTs when the       *)
(* reference does not parse.  A reference is one digit naming a tipset.    *)
(***************************************************************************)
ParseTipSetRef(ref) ==
    IF Len(ref) = 1 /\ \E t \in TipSets : DigitChars[t + 1] = ref[1]
    THEN CHOOSE t \in TipSets : DigitChars[t + 1] = ref[1]
    ELSE NilTs

(***************************************************************************)
(* State of the extraction command (tvx extract, tipset mode).             *)
(***************************************************************************)
VARIABLES
    opts,         \* extractOpts: retain, tsk, file
    destStat,     \* what os.Stat(opts.file) finds: "absent", "file" or "dir"
    pc,           \* position of the extraction command
    ret,          \* how doExtractTipset ended: "running", "nil", "error", "panic"
    ss,           \* strings.Split(opts.tsk, "..")
    left,         \* resolved left endpoint
    right,        \* resolved right endpoint
    curr,         \* cursor of extractTipsetRange
    clientCalls,  \* calls made to the chain-data client (FullAPI)
    fsCreates,    \* files and directories created
    lookupFailed, \* a ChainGetTipSet of the range walk has failed
    clientFailed, \* some call to the chain-data client has failed
    extracted,    \* the calls of extractTipset so far: [ts, path]
    written,      \* the vectors persisted by writeVector: [path, vector]
    et            \* the frame of the running (or last) extractTipset call

extractVars == <<opts, destStat, pc, ret, ss, left, right, curr, clientCalls,
                 fsCreates, lookupFailed, clientFailed, extracted, written, et>>

\* state of the replay command (tvx exec)
VARIABLES
    execFlags,   \* file, out, fallbackBlockstore
    xpc,         \* position of the replay command
    xret,        \* how runExec ended: "running", "nil", "error"
    files,       \* the names filepath.Glob matched, sorted
    idx,         \* index of the file the loop of execVectorDir is at
    outs,        \* the paths os.Create was called on (successfully), in order
    ioFailed,    \* the glob or an os.Create of execVectorDir failed
    attempted,   \* the files execVectorFile was called on, in order
    failures,    \* the files whose replay returned an error or marked the reporter
    reporter,    \* the failed flag of the reporter r in use
    tv,          \* the vector being executed: class and number of variants
    vi,          \* the variant the loop of executeTestVector is at
    xerr,        \* the named result err of executeTestVector / execVectorFile
    runs,        \* the variants executed for tv: [variant, err, marked, reported]
    stream,      \* the items decoded from standard input so far
    vectorsRun   \* the positions in the stream of the vectors executed

execVars == <<execFlags, xpc, xret, files, idx, outs, ioFailed, attempted, failures,
              reporter, tv, vi, xerr, runs, stream, vectorsRun>>

\* state of a call resp.GetCids() on a SealPreCommitResp
VARIABLES
    resp,          \* the receiver: CommR and CommD, byte slices
    gpc,           \* position inside GetCids
    commR,         \* result of ReplicaCommitmentV1ToCID
    errCommrSize,  \* its error
    commD,         \* result of DataCommitmentV1ToCID
    errCommdSize,  \* its error
    gret           \* what GetCids returned: [cids, err]

cidsVars == <<resp, gpc, commR, errCommrSize, commD, errCommdSize, gret>>

Retains == {"accessed-cids", "all"}

\* opts.file, the destination argument
DestPath == <<"dest">>

IdleFrame ==
    [ts |-> NilTs, path |-> <<>>, cont |-> "none", blk |-> 1, tracing |-> FALSE,
     starts |-> 0, finishes |-> 0, accessed |-> {}, traced |-> {},
     result |-> [applied |-> <<>>, post |-> <<>>], executed |-> FALSE,
     gz |-> <<>>, car |-> <<>>, err |-> FALSE]

\* nothing resolved, extracted or written yet
ExtractFresh ==
    /\ ret = "running"
    /\ ss = <<>>
    /\ left = NilTs
    /\ right = NilTs
    /\ curr = NilTs
    /\ clientCalls = 0
    /\ fsCreates = 0
    /\ lookupFailed = FALSE
    /\ clientFailed = FALSE
    /\ extracted = <<>>
    /\ written = <<>>
    /\ et = IdleFrame

InitExtract ==
    /\ opts \in [retain : Retains, tsk : TskInputs, file : {DestPath}]
    /\ destStat \in {"absent", "file", "dir"}
    /\ pc = "doExtract"
    /\ ExtractFresh

\* the extraction command is not run
ExtractIdle ==
    /\ opts = [retain |-> "accessed-cids", tsk |-> <<>>, file |-> DestPath]
    /\ destStat = "absent"
    /\ pc = "idle"
    /\ ExtractFresh

\* doExtractTipset returns
Return(r) ==
    /\ pc' = "done"
    /\ ret' = r

\* a call extractTipset(ctx, ts, path); cont is where the caller resumes
CallExtractTipset(t, path, cont) ==
    /\ extracted' = Append(extracted, [ts |-> t, path |-> path])
    /\ et' = [IdleFrame EXCEPT !.ts = t, !.path = path, !.cont = cont]
    /\ pc' = "et_blocks"

\* a check that lets every retention strategy through
RetainAny(retain) == TRUE

\* the one supported state retention strategy
RetainSupported(retain) == retain = "accessed-cids"

\* a switch that takes every reference of two or more parts as a range
DoExtractValidateLenient ==
    /\ pc = "doExtract"
    /\ IF ~RetainSupported(opts.retain)
       THEN Return("error") /\ UNCHANGED ss
       ELSE IF opts.tsk = <<>>
       THEN Return("error") /\ UNCHANGED ss
       ELSE /\ ss' = Split(opts.tsk)
            /\ IF Len(ss') = 1 THEN pc' = "single" /\ UNCHANGED ret
               ELSE pc' = "rangeLeft" /\ UNCHANGED ret
    /\ UNCHANGED <<opts, destStat, left, right, curr, clientCalls, fsCreates,
                   lookupFailed, clientFailed, extracted, written, et>>
    /\ UNCHANGED <<execVars, cidsVars>>

\* doExtractTipset, the checks on the options and the switch on len(ss)
DoExtractValidate ==
    /\ pc = "doExtract"
    /\ IF ~RetainSupported(opts.retain)
       THEN Return("error") /\ UNCHANGED ss
       ELSE IF opts.tsk = <<>>
       THEN Return("error") /\ UNCHANGED ss
       ELSE /\ ss' = Split(opts.tsk)
            /\ IF Len(ss') = 1 THEN pc' = "single" /\ UNCHANGED ret
               ELSE IF Len(ss') = 2 THEN pc' = "rangeLeft" /\ UNCHANGED ret
               ELSE Return("error")
    /\ UNCHANGED <<opts, destStat, left, right, curr, clientCalls, fsCreates,
                   lookupFailed, clientFailed, extracted, written, et>>
    /\ UNCHANGED <<execVars, cidsVars>>

\* case 1: resolve the single reference and extract it to opts.file
ResolveSingle ==
    /\ pc = "single"
    /\ LET t == ParseTipSetRef(opts.tsk)
       IN  \/ /\ t # NilTs
              /\ clientCalls' = clientCalls + 1
              /\ CallExtractTipset(t, opts.file, "singleRet")
              /\ UNCHANGED <<ret, clientFailed>>
           \/ /\ clientCalls' = IF t = NilTs THEN clientCalls ELSE clientCalls + 1
              /\ clientFailed' = (t # NilTs)
              /\ Return("error")
              /\ UNCHANGED <<extracted, et>>
    /\ UNCHANGED <<opts, destStat, ss, left, right, curr, fsCreates, lookupFailed, written>>
    /\ UNCHANGED <<execVars, cidsVars>>

\* case 2: resolve ss[0]
ResolveLeft ==
    /\ pc = "rangeLeft"
    /\ LET t == ParseTipSetRef(ss[1])
       IN  \/ /\ t # NilTs
              /\ clientCalls' = clientCalls + 1
              /\ left' = t
              /\ pc' = "rangeRight"
              /\ UNCHANGED <<ret, clientFailed>>
           \/ /\ clientCalls' = IF t = NilTs THEN clientCalls ELSE clientCalls + 1
              /\ clientFailed' = (t # NilTs)
              /\ Return("error")
              /\ UNCHANGED left
    /\ UNCHANGED <<opts, destStat, ss, right, curr, fsCreates, lookupFailed,
                   extracted, written, et>>
    /\ UNCHANGED <<execVars, cidsVars>>

\* case 2: resolve ss[1]
ResolveRight ==
    /\ pc = "rangeRight"
    /\ LET t == ParseTipSetRef(ss[2])
       IN  \/ /\ t # NilTs
              /\ clientCalls' = clientCalls + 1
              /\ right' = t
              /\ pc' = "stat"
              /\ UNCHANGED <<ret, clientFailed>>
           \/ /\ clientCalls' = IF t = NilTs THEN clientCalls ELSE clientCalls + 1
              /\ clientFailed' = (clientFailed \/ t # NilTs)
              /\ Return("error")
              /\ UNCHANGED right
    /\ UNCHANGED <<opts, destStat, ss, left, curr, fsCreates, lookupFailed,
                   extracted, written, et>>
    /\ UNCHANGED <<execVars, cidsVars>>

\* a destination check that lets an existing non-directory through
StatDestAnyPath ==
    /\ pc = "stat"
    /\ \/ /\ destStat = "absent"
          /\ \/ /\ destStat' = "dir"
                /\ fsCreates' = fsCreates + 1
                /\ curr' = right
                /\ pc' = "loop"
                /\ UNCHANGED ret
             \/ /\ Return("error")
                /\ UNCHANGED <<destStat, fsCreates, curr>>
       \/ /\ destStat # "absent"
          /\ curr' = right
          /\ pc' = "loop"
          /\ UNCHANGED <<destStat, fsCreates, ret>>
       \/ /\ destStat # "absent"
          /\ Return("error")
          /\ UNCHANGED <<destStat, fsCreates, curr>>
    /\ UNCHANGED <<opts, ss, left, right, clientCalls, lookupFailed, clientFailed, extracted, written, et>>
    /\ UNCHANGED <<execVars, cidsVars>>

\* case 2: the destination must be a directory, created when absent;
\* then extractTipsetRange starts with curr := right
StatDest ==
    /\ pc = "stat"
    /\ \/ /\ destStat = "absent"
          /\ \/ /\ destStat' = "dir"
                /\ fsCreates' = fsCreates + 1
                /\ curr' = right
                /\ pc' = "loop"
                /\ UNCHANGED ret
             \/ /\ Return("error")
                /\ UNCHANGED <<destStat, fsCreates, curr>>
       \/ /\ destStat = "dir"
          /\ curr' = right
          /\ pc' = "loop"
          /\ UNCHANGED <<destStat, fsCreates, ret>>
       \/ /\ destStat = "file"
          /\ Return("error")
          /\ UNCHANGED <<destStat, fsCreates, curr>>
       \/ /\ destStat # "absent"
          /\ Return("error")
          /\ UNCHANGED <<destStat, fsCreates, curr>>
    /\ UNCHANGED <<opts, ss, left, right, clientCalls, lookupFailed, clientFailed, extracted, written, et>>
    /\ UNCHANGED <<execVars, cidsVars>>

\* a walk that stops at left without extracting it
RangeLoopExclusive ==
    /\ pc = "loop"
    /\ IF Key(curr) # Key(left)
       THEN /\ CallExtractTipset(curr, Join(opts.file, EpochName(curr, "")), "loopRet")
            /\ UNCHANGED ret
       ELSE /\ Return("nil")
            /\ UNCHANGED <<extracted, et>>
    /\ UNCHANGED <<opts, destStat, ss, left, right, curr, clientCalls, fsCreates,
                   lookupFailed, clientFailed, written>>
    /\ UNCHANGED <<execVars, cidsVars>>

\* extractTipsetRange: the loop test, and the extraction it leads to
RangeLoop ==
    /\ pc = "loop"
    /\ IF Key(curr) # Key(left)
       THEN CallExtractTipset(curr, Join(opts.file, EpochName(curr, "")), "loopRet")
       ELSE CallExtractTipset(curr, Join(opts.file, EpochName(curr, ".json")), "finalRet")
    /\ UNCHANGED <<opts, destStat, ret, ss, left, right, curr, clientCalls, fsCreates,
                   lookupFailed, clientFailed, written>>
    /\ UNCHANGED <<execVars, cidsVars>>

\* extractTipsetRange: after the extraction in the loop body, the error check and
\* the step to the parent.  A failed ChainGetTipSet leaves curr as the client
\* returned it; the error message then reads curr.Parents(), which panics on nil.
LoopStep ==
    /\ pc = "loopRet"
    /\ IF et.err
       THEN Return("error") /\ UNCHANGED <<curr, clientCalls, lookupFailed, clientFailed>>
       ELSE /\ clientCalls' = clientCalls + 1
            /\ \/ /\ Parents(curr) # NilTs
                  /\ curr' = Parents(curr)
                  /\ pc' = "loop"
                  /\ UNCHANGED <<ret, lookupFailed, clientFailed>>
               \/ /\ lookupFailed' = TRUE
                  /\ clientFailed' = TRUE
                  /\ \E c \in {NilTs, curr} :
                        /\ curr' = c
                        /\ Return(IF c = NilTs THEN "panic" ELSE "error")
    /\ UNCHANGED <<opts, destStat, ss, left, right, fsCreates, extracted, written, et>>
    /\ UNCHANGED <<execVars, cidsVars>>

\* doExtractTipset case 1 returns what extractTipset returned
SingleReturn ==
    /\ pc = "singleRet"
    /\ Return(IF et.err THEN "error" ELSE "nil")
    /\ UNCHANGED <<opts, destStat, ss, left, right, curr, clientCalls, fsCreates,
                   lookupFailed, clientFailed, extracted, written, et>>
    /\ UNCHANGED <<execVars, cidsVars>>

\* extractTipsetRange returns what the extraction of left returned
FinalReturn ==
    /\ pc = "finalRet"
    /\ Return(IF et.err THEN "error" ELSE "nil")
    /\ UNCHANGED <<opts, destStat, ss, left, right, curr, clientCalls, fsCreates,
                   lookupFailed, clientFailed, extracted, written, et>>
    /\ UNCHANGED <<execVars, cidsVars>>

(***************************************************************************)
(* extractTipset(ctx, ts, path)                                            *)
(***************************************************************************)
EtPcs == {"et_blocks", "et_trace", "et_exec", "et_finish", "et_car", "et_flush",
          "et_close", "et_meta", "et_write"}

\* extractTipset returns err to its caller
EtReturnErr(frame) ==
    /\ et' = [frame EXCEPT !.err = TRUE]
    /\ pc' = frame.cont

\* the results the execution engine reports: n of them, in application order
AppliedResults(n) == [i \in 1..n |-> [ExitCode |-> i - 1, GasUsed |-> 10 * i]]

\* receipts collected in the opposite order
ReceiptsReversed(applied) ==
    [i \in 1..Len(applied) |->
        [exit_code |-> applied[Len(applied) + 1 - i].ExitCode,
         gas_used |-> applied[Len(applied) + 1 - i].GasUsed]]

\* the receipts of a vector, one per applied result, in order
Receipts(applied) ==
    [i \in 1..Len(applied) |->
        [exit_code |-> applied[i].ExitCode, gas_used |-> applied[i].GasUsed]]

\* the schema.TestVector that extractTipset assembles
Vector(frame) ==
    [class |-> "tipset",
     id |-> <<"@">> \o EpochString(Height(frame.ts)),
     car |-> [archive |-> frame.car, stream |-> frame.gz],
     variants |-> <<[epoch |-> Height(frame.ts)]>>,
     pre_root |-> ParentState(frame.ts),
     apply_tipsets |-> <<[ts |-> frame.ts, blocks |-> NumBlocks(frame.ts)]>>,
     post_root |-> frame.result.post,
     receipts |-> Receipts(frame.result.applied)]

\* the loop over ts.Blocks(): one ChainGetBlockMessages per block
EtBlockMessages ==
    /\ pc = "et_blocks"
    /\ clientCalls' = clientCalls + 1
    /\ \/ /\ et' = [et EXCEPT !.blk = @ + 1]
          /\ pc' = IF et.blk = NumBlocks(et.ts) THEN "et_trace" ELSE "et_blocks"
          /\ UNCHANGED clientFailed
       \/ /\ EtReturnErr(et)
          /\ clientFailed' = TRUE
    /\ UNCHANGED <<opts, destStat, ret, ss, left, right, curr, fsCreates,
                   lookupFailed, extracted, written>>
    /\ UNCHANGED <<execVars, cidsVars>>

\* the type assertion to TracingBlockstore, then tbs.StartTracing()
EtStartTracing ==
    /\ pc = "et_trace"
    /\ \/ /\ et' = [et EXCEPT !.tracing = TRUE, !.starts = @ + 1, !.traced = {}]
          /\ pc' = "et_exec"
       \/ EtReturnErr(et)
    /\ UNCHANGED <<opts, destStat, ret, ss, left, right, curr, clientCalls, fsCreates,
                   lookupFailed, clientFailed, extracted, written>>
    /\ UNCHANGED <<execVars, cidsVars>>

\* driver.ExecuteTipset and its error check
EtExecuteTipset ==
    /\ pc = "et_exec"
    /\ \/ \E n \in 0..MaxApplied :
             /\ et' = [et EXCEPT
                         !.executed = TRUE,
                         !.traced = IF et.tracing
                                    THEN {ParentState(et.ts), PostStateRoot(et.ts)}
                                    ELSE @,
                         !.result = [applied |-> AppliedResults(n),
                                     post |-> PostStateRoot(et.ts)]]
             /\ pc' = "et_finish"
       \/ EtReturnErr([et EXCEPT !.executed = TRUE])
    /\ UNCHANGED <<opts, destStat, ret, ss, left, right, curr, clientCalls, fsCreates,
                   lookupFailed, clientFailed, extracted, written>>
    /\ UNCHANGED <<execVars, cidsVars>>

\* accessed := tbs.FinishTracing()
EtFinishTracing ==
    /\ pc = "et_finish"
    /\ et' = [et EXCEPT !.tracing = FALSE, !.finishes = @ + 1, !.accessed = et.traced]
    /\ pc' = "et_car"
    /\ UNCHANGED <<opts, destStat, ret, ss, left, right, curr, clientCalls, fsCreates,
                   lookupFailed, clientFailed, extracted, written>>
    /\ UNCHANGED <<execVars, cidsVars>>

\* an archive written from the pre-state root alone
EtWriteCARPreRootOnly ==
    /\ pc = "et_car"
    /\ LET call == [allow |-> et.accessed, roots |-> <<ParentState(et.ts)>>]
       IN  \/ /\ et' = [et EXCEPT !.car = Append(@, call), !.gz = Append(@, "write")]
              /\ pc' = "et_flush"
           \/ EtReturnErr([et EXCEPT !.car = Append(@, call)])
    /\ UNCHANGED <<opts, destStat, ret, ss, left, right, curr, clientCalls, fsCreates,
                   lookupFailed, clientFailed, extracted, written>>
    /\ UNCHANGED <<execVars, cidsVars>>

\* g.WriteCARIncluding(gw, accessed, ts.ParentState(), result.PostStateRoot)
EtWriteCAR ==
    /\ pc = "et_car"
    /\ LET call == [allow |-> et.accessed,
                    roots |-> <<ParentState(et.ts), et.result.post>>]
       IN  \/ /\ et' = [et EXCEPT !.car = Append(@, call), !.gz = Append(@, "write")]
              /\ pc' = "et_flush"
           \/ EtReturnErr([et EXCEPT !.car = Append(@, call)])
    /\ UNCHANGED <<opts, destStat, ret, ss, left, right, curr, clientCalls, fsCreates,
                   lookupFailed, clientFailed, extracted, written>>
    /\ UNCHANGED <<execVars, cidsVars>>

\* a flush whose error is dropped
EtFlushUnchecked ==
    /\ pc = "et_flush"
    /\ \/ /\ et' = [et EXCEPT !.gz = Append(@, "flush")]
          /\ pc' = "et_close"
       \/ /\ et' = et
          /\ pc' = "et_close"
    /\ UNCHANGED <<opts, destStat, ret, ss, left, right, curr, clientCalls, fsCreates,
                   lookupFailed, clientFailed, extracted, written>>
    /\ UNCHANGED <<execVars, cidsVars>>

\* gw.Flush()
EtFlush ==
    /\ pc = "et_flush"
    /\ \/ /\ et' = [et EXCEPT !.gz = Append(@, "flush")]
          /\ pc' = "et_close"
       \/ EtReturnErr(et)
    /\ UNCHANGED <<opts, destStat, ret, ss, left, right, curr, clientCalls, fsCreates,
                   lookupFailed, clientFailed, extracted, written>>
    /\ UNCHANGED <<execVars, cidsVars>>

\* gw.Close()
EtClose ==
    /\ pc = "et_close"
    /\ \/ /\ et' = [et EXCEPT !.gz = Append(@, "close")]
          /\ pc' = "et_meta"
       \/ EtReturnErr(et)
    /\ UNCHANGED <<opts, destStat, ret, ss, left, right, curr, clientCalls, fsCreates,
                   lookupFailed, clientFailed, extracted, written>>
    /\ UNCHANGED <<execVars, cidsVars>>

\* StateNetworkVersion, Version, StateNetworkName: the first failure returns
EtMetadata ==
    /\ pc = "et_meta"
    /\ \/ /\ clientCalls' = clientCalls + 3
          /\ pc' = "et_write"
          /\ UNCHANGED <<et, clientFailed>>
       \/ \E failing \in 1..3 :
             /\ clientCalls' = clientCalls + failing
             /\ clientFailed' = TRUE
             /\ EtReturnErr(et)
    /\ UNCHANGED <<opts, destStat, ret, ss, left, right, curr, fsCreates,
                   lookupFailed, extracted, written>>
    /\ UNCHANGED <<execVars, cidsVars>>

\* the vector is assembled and handed to writeVector(vector, path)
EtWriteVector ==
    /\ pc = "et_write"
    /\ \/ /\ written' = Append(written, [path |-> et.path, vector |-> Vector(et)])
          /\ fsCreates' = fsCreates + 1
          /\ pc' = et.cont
          /\ UNCHANGED et
       \/ /\ EtReturnErr(et)
          /\ UNCHANGED <<written, fsCreates>>
    /\ UNCHANGED <<opts, destStat, ret, ss, left, right, curr, clientCalls,
                   lookupFailed, clientFailed, extracted>>
    /\ UNCHANGED <<execVars, cidsVars>>

(***************************************************************************)
(* State of the replay command (tvx exec).                                 *)
(***************************************************************************)
\* files matched in the input directory, at most
MaxFiles == 2
\* variants declared by one test vector, at most
MaxVariants == 2
\* vectors decoded from standard input, at most
MaxStream == 2

Classes == {"message", "tipset", "other"}

NoVector == [class |-> "none", variants |-> 0]

Vectors == [class : Classes, variants : 0..MaxVariants]

\* what dec.Decode yields instead of a vector: io.EOF, or another error
EndOfStream == [class |-> "EOF", variants |-> 0]

Malformed == [class |-> "malformed", variants |-> 0]

\* names of the files of an input directory, in the order Glob returns them
FileNames == << <<"a">>, <<"a", ".", "j">>, <<"a", ".", "t">>, <<"b", ".", "j">> >>

\* the sorted selections of at most n names
Globs(n) ==
    {sel \in UNION {[1..k -> 1..Len(FileNames)] : k \in 0..n} :
        \A i, j \in DOMAIN sel : i < j => sel[i] < sel[j]}

\* position of the last dot of a name, 0 when there is none
LastDot(name) ==
    IF \E i \in 1..Len(name) : name[i] = Dot
    THEN CHOOSE i \in 1..Len(name) :
            name[i] = Dot /\ \A j \in (i + 1)..Len(name) : name[j] # Dot
    ELSE 0

\* filepath.Ext: the suffix beginning at the final dot, empty without a dot
Ext(name) ==
    IF LastDot(name) = 0 THEN <<>> ELSE SubSeq(name, LastDot(name), Len(name))

\* strings.TrimSuffix
TrimSuffix(str, suffix) ==
    IF Len(suffix) <= Len(str)
       /\ SubSeq(str, Len(str) - Len(suffix) + 1, Len(str)) = suffix
    THEN SubSeq(str, 1, Len(str) - Len(suffix))
    ELSE str

\* the report file of an input file: its base name with the extension
\* replaced by ".out"
OutFile(name) == TrimSuffix(name, Ext(name)) \o <<".", "o", "u", "t">>

\* Reporter.Failed after an execution that did (marked) or did not call
\* Errorf on a reporter whose flag was failedBefore: the flag is never reset
ReporterFailed(failedBefore, marked) == failedBefore \/ marked

\* nothing replayed yet
ExecFresh ==
    /\ xret = "running"
    /\ files = <<>>
    /\ idx = 1
    /\ outs = <<>>
    /\ ioFailed = FALSE
    /\ attempted = <<>>
    /\ failures = {}
    /\ reporter = FALSE
    /\ tv = NoVector
    /\ vi = 1
    /\ xerr = FALSE
    /\ runs = <<>>
    /\ stream = <<>>
    /\ vectorsRun = <<>>

InitExec ==
    /\ execFlags \in [file : {"", "missing", "dir", "vector"},
                      out : {"", "outdir"},
                      fallbackBlockstore : BOOLEAN]
    /\ xpc = "runExec"
    /\ ExecFresh

\* the replay command is not run
ExecIdle ==
    /\ execFlags = [file |-> "", out |-> "", fallbackBlockstore |-> FALSE]
    /\ xpc = "idle"
    /\ ExecFresh

\* runExec returns
XReturn(r) ==
    /\ xpc' = "done"
    /\ xret' = r

\* where execVectorFile / executeTestVector return to
Caller ==
    IF execFlags.file = "" THEN "stdinRet"
    ELSE IF execFlags.file = "dir" THEN "dirRet"
    ELSE "fileRet"

\* runExec: fallback blockstore set-up, then the dispatch on execFlags.file
RunExec ==
    /\ xpc = "runExec"
    /\ \/ /\ execFlags.fallbackBlockstore
          /\ XReturn("error")
          /\ UNCHANGED reporter
       \/ IF execFlags.file = ""
          THEN xpc' = "stdin" /\ reporter' = FALSE /\ UNCHANGED xret
          ELSE IF execFlags.file = "missing"
          THEN XReturn("error") /\ UNCHANGED reporter
          ELSE IF execFlags.file = "dir"
          THEN IF execFlags.out = ""
               THEN XReturn("error") /\ UNCHANGED reporter
               ELSE \/ XReturn("error") /\ UNCHANGED reporter
                    \/ xpc' = "glob" /\ UNCHANGED <<xret, reporter>>
          ELSE xpc' = "open" /\ reporter' = FALSE /\ UNCHANGED xret
    /\ UNCHANGED <<execFlags, files, idx, outs, ioFailed, attempted, failures,
                   tv, vi, xerr, runs, stream, vectorsRun>>
    /\ UNCHANGED <<extractVars, cidsVars>>

\* execVectorDir: filepath.Glob over the input directory
ExecVectorDirGlob ==
    /\ xpc = "glob"
    /\ \/ /\ ioFailed' = TRUE
          /\ XReturn("error")
          /\ UNCHANGED <<files, idx>>
       \/ \E sel \in Globs(MaxFiles) :
             /\ files' = [i \in DOMAIN sel |-> FileNames[sel[i]]]
             /\ idx' = 1
             /\ xpc' = "dirLoop"
             /\ UNCHANGED <<xret, ioFailed>>
    /\ UNCHANGED <<execFlags, outs, attempted, failures, reporter, tv, vi, xerr,
                   runs, stream, vectorsRun>>
    /\ UNCHANGED <<extractVars, cidsVars>>

\* execVectorDir: the loop head, os.Create of the report file and the call of
\* execVectorFile with a new reporter; after the last file it returns nil
ExecVectorDirFile ==
    /\ xpc = "dirLoop"
    /\ IF idx > Len(files)
       THEN /\ XReturn("nil")
            /\ UNCHANGED <<outs, ioFailed, attempted, reporter>>
       ELSE \/ /\ ioFailed' = TRUE
               /\ XReturn("error")
               /\ UNCHANGED <<outs, attempted, reporter>>
            \/ /\ outs' = Append(outs, <<execFlags.out, OutFile(files[idx])>>)
               /\ attempted' = Append(attempted, idx)
               /\ reporter' = FALSE
               /\ xpc' = "open"
               /\ UNCHANGED <<xret, ioFailed>>
    /\ UNCHANGED <<execFlags, files, idx, failures, tv, vi, xerr, runs, stream, vectorsRun>>
    /\ UNCHANGED <<extractVars, cidsVars>>

\* the replay of the current file failed: an error was returned by
\* execVectorFile or by a variant, or the reporter was marked failed
ReplayFailed == xerr \/ reporter \/ \E i \in 1..Len(runs) : runs[i].err

\* a batch that ends at the first file whose replay fails
ExecVectorDirNextAbortOnFailure ==
    /\ xpc = "dirRet"
    /\ failures' = IF ReplayFailed THEN failures \cup {idx} ELSE failures
    /\ IF ReplayFailed
       THEN XReturn("error") /\ UNCHANGED idx
       ELSE idx' = idx + 1 /\ xpc' = "dirLoop" /\ UNCHANGED xret
    /\ UNCHANGED <<execFlags, files, outs, ioFailed, attempted, reporter, tv, vi,
                   xerr, runs, stream, vectorsRun>>
    /\ UNCHANGED <<extractVars, cidsVars>>

\* execVectorDir: the results of execVectorFile are dropped, the report file
\* is closed and the loop goes on to the next file
ExecVectorDirNext ==
    /\ xpc = "dirRet"
    /\ failures' = IF ReplayFailed THEN failures \cup {idx} ELSE failures
    /\ idx' = idx + 1
    /\ xpc' = "dirLoop"
    /\ UNCHANGED <<execFlags, xret, files, outs, ioFailed, attempted, reporter, tv, vi,
                   xerr, runs, stream, vectorsRun>>
    /\ UNCHANGED <<extractVars, cidsVars>>

\* execVectorFile: open and decode the file, then executeTestVector
ExecVectorFile ==
    /\ xpc = "open"
    /\ \/ \E kind \in {"open failed", "decode failed"} :
             /\ xerr' = TRUE
             /\ tv' = NoVector
             /\ runs' = <<>>
             /\ xpc' = Caller
             /\ UNCHANGED vi
       \/ \E v \in Vectors :
             /\ tv' = v
             /\ vi' = 1
             /\ xerr' = FALSE
             /\ runs' = <<>>
             /\ xpc' = "variants"
    /\ UNCHANGED <<execFlags, xret, files, idx, outs, ioFailed, attempted, failures,
                   reporter, stream, vectorsRun>>
    /\ UNCHANGED <<extractVars, cidsVars>>

\* an executeTestVector whose loop ends at the first variant that fails
ExecuteVariantStopAtFailure ==
    /\ xpc = "variants"
    /\ vi <= tv.variants
    /\ IF tv.class \in {"message", "tipset"}
       THEN \E e, marked \in BOOLEAN :
               /\ xerr' = e
               /\ reporter' = ReporterFailed(reporter, marked)
               /\ runs' = Append(runs, [variant |-> vi, err |-> e, marked |-> marked,
                                        reported |-> IF reporter' THEN "failed"
                                                     ELSE "succeeded"])
               /\ vi' = vi + 1
               /\ xpc' = IF e \/ reporter' THEN Caller ELSE xpc
       ELSE /\ xerr' = TRUE
            /\ xpc' = Caller
            /\ UNCHANGED <<reporter, runs, vi>>
    /\ UNCHANGED <<execFlags, xret, files, idx, outs, ioFailed, attempted, failures,
                   tv, stream, vectorsRun>>
    /\ UNCHANGED <<extractVars, cidsVars>>

\* executeTestVector: one turn of the loop over tv.Pre.Variants
ExecuteVariant ==
    /\ xpc = "variants"
    /\ vi <= tv.variants
    /\ IF tv.class \in {"message", "tipset"}
       THEN \E e, marked \in BOOLEAN :
               /\ xerr' = e
               /\ reporter' = ReporterFailed(reporter, marked)
               /\ runs' = Append(runs, [variant |-> vi, err |-> e, marked |-> marked,
                                        reported |-> IF reporter' THEN "failed"
                                                     ELSE "succeeded"])
               /\ vi' = vi + 1
               /\ UNCHANGED xpc
       ELSE /\ xerr' = TRUE
            /\ xpc' = Caller
            /\ UNCHANGED <<reporter, runs, vi>>
    /\ UNCHANGED <<execFlags, xret, files, idx, outs, ioFailed, attempted, failures,
                   tv, stream, vectorsRun>>
    /\ UNCHANGED <<extractVars, cidsVars>>

\* executeTestVector: after the last variant, return err, diffs
ExecuteTestVectorReturn ==
    /\ xpc = "variants"
    /\ vi > tv.variants
    /\ xpc' = Caller
    /\ UNCHANGED <<execFlags, xret, files, idx, outs, ioFailed, attempted, failures,
                   reporter, tv, vi, xerr, runs, stream, vectorsRun>>
    /\ UNCHANGED <<extractVars, cidsVars>>

\* runExec: single file mode returns the error of execVectorFile
RunExecFileReturn ==
    /\ xpc = "fileRet"
    /\ XReturn(IF xerr THEN "error" ELSE "nil")
    /\ UNCHANGED <<execFlags, files, idx, outs, ioFailed, attempted, failures,
                   reporter, tv, vi, xerr, runs, stream, vectorsRun>>
    /\ UNCHANGED <<extractVars, cidsVars>>

\* a decoder loop that skips an item it cannot decode
ExecVectorsStdinDecodeSkipping ==
    /\ xpc = "stdin"
    /\ \/ /\ stream' = Append(stream, EndOfStream)
          /\ XReturn("nil")
          /\ UNCHANGED <<tv, vi, xerr, runs, vectorsRun>>
       \/ /\ stream' = Append(stream, Malformed)
          /\ IF Len(stream) < MaxStream
             THEN UNCHANGED <<xpc, xret>>
             ELSE XReturn("error")
          /\ UNCHANGED <<tv, vi, xerr, runs, vectorsRun>>
       \/ /\ Len(stream) < MaxStream
          /\ \E v \in Vectors :
                /\ stream' = Append(stream, v)
                /\ vectorsRun' = Append(vectorsRun, Len(stream) + 1)
                /\ tv' = v
                /\ vi' = 1
                /\ xerr' = FALSE
                /\ runs' = <<>>
                /\ xpc' = "variants"
                /\ UNCHANGED xret
    /\ UNCHANGED <<execFlags, files, idx, outs, ioFailed, attempted, failures, reporter>>
    /\ UNCHANGED <<extractVars, cidsVars>>

\* execVectorsStdin: dec.Decode and the switch on its error
ExecVectorsStdinDecode ==
    /\ xpc = "stdin"
    /\ \/ /\ stream' = Append(stream, EndOfStream)
          /\ XReturn("nil")
          /\ UNCHANGED <<tv, vi, xerr, runs, vectorsRun>>
       \/ /\ stream' = Append(stream, Malformed)
          /\ XReturn("error")
          /\ UNCHANGED <<tv, vi, xerr, runs, vectorsRun>>
       \/ /\ Len(stream) < MaxStream
          /\ \E v \in Vectors :
                /\ stream' = Append(stream, v)
                /\ vectorsRun' = Append(vectorsRun, Len(stream) + 1)
                /\ tv' = v
                /\ vi' = 1
                /\ xerr' = FALSE
                /\ runs' = <<>>
                /\ xpc' = "variants"
                /\ UNCHANGED xret
    /\ UNCHANGED <<execFlags, files, idx, outs, ioFailed, attempted, failures, reporter>>
    /\ UNCHANGED <<extractVars, cidsVars>>

\* execVectorsStdin: an error of executeTestVector ends the stream
ExecVectorsStdinNext ==
    /\ xpc = "stdinRet"
    /\ IF xerr THEN XReturn("error") ELSE xpc' = "stdin" /\ UNCHANGED xret
    /\ UNCHANGED <<execFlags, files, idx, outs, ioFailed, attempted, failures,
                   reporter, tv, vi, xerr, runs, stream, vectorsRun>>
    /\ UNCHANGED <<extractVars, cidsVars>>

(***************************************************************************)
(* SealPreCommitResp.GetCids (extern/sector-storage/dispatch.go): the      *)
(* commitments of a pre-commit response, converted to CIDs.                *)
(***************************************************************************)
\* longest commitment slice a response carries, in bytes
MaxCommLen == 33

\* bytes of a commitment digest (generated.Fil32ByteArray)
CommitmentLen == 32

\* a byte slice of n bytes, each b
Bytes(n, b) == [i \in 1..n |-> b]

\* the slices resp.CommR and resp.CommD may hold; the nil slice is <<>>
Commitments == {Bytes(n, b) : n \in 0..MaxCommLen, b \in {0, 255}}

\* cid.Undef, the zero Cid
Undef == [codec |-> "undef", digest |-> <<>>]

\* storage.SectorCids{}
NoSectorCids == [Unsealed |-> Undef, Sealed |-> Undef]

\* commcid.ReplicaCommitmentV1ToCID: the sealed-sector CID over the digest;
\* an error when the slice is not a digest of CommitmentLen bytes
ReplicaCommitmentV1ToCID(b) ==
    IF Len(b) = CommitmentLen
    THEN [cid |-> [codec |-> "fil-commitment-sealed", digest |-> b], err |-> "nil"]
    ELSE [cid |-> Undef, err |-> "ErrIncorrectHash"]

\* commcid.DataCommitmentV1ToCID: the unsealed-sector CID over the digest;
\* an error when the slice is not a digest of CommitmentLen bytes
DataCommitmentV1ToCID(b) ==
    IF Len(b) = CommitmentLen
    THEN [cid |-> [codec |-> "fil-commitment-unsealed", digest |-> b], err |-> "nil"]
    ELSE [cid |-> Undef, err |-> "ErrIncorrectHash"]

\* the locals and the result before GetCids runs
GetCidsFresh ==
    /\ commR = Undef
    /\ errCommrSize = "nil"
    /\ commD = Undef
    /\ errCommdSize = "nil"
    /\ gret = [cids |-> NoSectorCids, err |-> "nil"]

InitGetCids ==
    /\ resp \in [CommR : Commitments, CommD : Commitments]
    /\ gpc = "convertCommR"
    /\ GetCidsFresh

\* GetCids is not called
GetCidsIdle ==
    /\ resp = [CommR |-> <<>>, CommD |-> <<>>]
    /\ gpc = "idle"
    /\ GetCidsFresh

\* GetCids returns (cids, err)
GetCidsReturns(cids, err) ==
    /\ gret' = [cids |-> cids, err |-> err]
    /\ gpc' = "done"

\* commR, errCommrSize := commcid.ReplicaCommitmentV1ToCID(resp.CommR[:])
\* and the check of errCommrSize
GetCidsConvertCommR ==
    /\ gpc = "convertCommR"
    /\ LET r == ReplicaCommitmentV1ToCID(resp.CommR)
       IN  /\ commR' = r.cid
           /\ errCommrSize' = r.err
           /\ IF r.err # "nil"
              THEN GetCidsReturns(NoSectorCids, r.err)
              ELSE /\ gpc' = "convertCommD"
                   /\ UNCHANGED gret
    /\ UNCHANGED <<resp, commD, errCommdSize>>
    /\ UNCHANGED <<extractVars, execVars>>

\* commD, errCommdSize := commcid.DataCommitmentV1ToCID(resp.CommD[:])
\* and the check of errCommdSize, which returns errCommrSize
GetCidsConvertCommD ==
    /\ gpc = "convertCommD"
    /\ LET r == DataCommitmentV1ToCID(resp.CommD)
       IN  /\ commD' = r.cid
           /\ errCommdSize' = r.err
           /\ IF r.err # "nil"
              THEN GetCidsReturns(NoSectorCids, errCommrSize)
              ELSE /\ gpc' = "return"
                   /\ UNCHANGED gret
    /\ UNCHANGED <<resp, commR, errCommrSize>>
    /\ UNCHANGED <<extractVars, execVars>>

\* return storage.SectorCids{Unsealed: commD, Sealed: commR}, nil
GetCidsReturn ==
    /\ gpc = "return"
    /\ GetCidsReturns([Unsealed |-> commD, Sealed |-> commR], "nil")
    /\ UNCHANGED <<resp, commR, errCommrSize, commD, errCommdSize>>
    /\ UNCHANGED <<extractVars, execVars>>

NextExtract ==
    \/ DoExtractValidate
    \/ ResolveSingle
    \/ ResolveLeft
    \/ ResolveRight
    \/ StatDest
    \/ RangeLoop
    \/ LoopStep
    \/ SingleReturn
    \/ FinalReturn
    \/ EtBlockMessages
    \/ EtStartTracing
    \/ EtExecuteTipset
    \/ EtFinishTracing
    \/ EtWriteCAR
    \/ EtFlush
    \/ EtClose
    \/ EtMetadata
    \/ EtWriteVector

NextExec ==
    \/ RunExec
    \/ ExecVectorDirGlob
    \/ ExecVectorDirFile
    \/ ExecVectorDirNext
    \/ ExecVectorFile
    \/ ExecuteVariant
    \/ ExecuteTestVectorReturn
    \/ RunExecFileReturn
    \/ ExecVectorsStdinDecode
    \/ ExecVectorsStdinNext

NextGetCids ==
    \/ GetCidsConvertCommR
    \/ GetCidsConvertCommD
    \/ GetCidsReturn

vars == <<extractVars, execVars, cidsVars>>

\* the extraction command, with the replay command not started
ExtractStart == InitExtract /\ ExecIdle /\ GetCidsIdle

SpecExtract == ExtractStart /\ [][NextExtract]_vars

\* the replay command, with the extraction command not started
ExecStart == InitExec /\ ExtractIdle /\ GetCidsIdle

SpecExec == ExecStart /\ [][NextExec]_vars

\* one call of GetCids, with neither command started
GetCidsStart == InitGetCids /\ ExtractIdle /\ ExecIdle

SpecGetCids == GetCidsStart /\ [][NextGetCids]_vars

(***************************************************************************)
(* Properties of the extraction command                                    *)
(***************************************************************************)
\* left is reached from right by following parent links
RECURSIVE OnParentChain(_, _)
OnParentChain(l, r) ==
    IF r = NilTs THEN FALSE
    ELSE IF r = l THEN TRUE
    ELSE OnParentChain(l, Parents(r))

\* the parent chain from r down to l, both included
RECURSIVE ChainDown(_, _)
ChainDown(r, l) ==
    IF r = l \/ r = NilTs THEN <<r>> ELSE <<r>> \o ChainDown(Parents(r), l)

\* the tipsets extractTipset was called on, in call order
ExtractedTs == [i \in 1..Len(extracted) |-> extracted[i].ts]

\* the tipsets of the vectors written, in write order
WrittenTs == [i \in 1..Len(written) |-> written[i].vector.apply_tipsets[1].ts]

\* extractTipsetRange ran and the command has ended
RangeWalkEnded == pc = "done" /\ Len(ss) = 2 /\ extracted # <<>>

StrictlyDecreasingHeights(tss) ==
    \A i, j \in 1..Len(tss) : i < j => Height(tss[i]) > Height(tss[j])

SameEndpointsDone ==
    pc = "done" /\ Len(ss) = 2 /\ left # NilTs /\ left = right /\ ret = "nil"

\* C2 as stated: the range A..A writes exactly one vector, to the path that
\* single-key extraction of A writes to (the destination argument itself).
C2_AsStated ==
    SameEndpointsDone => (Len(written) = 1 /\ written[1].path = opts.file)

\* C2 amended: the range A..A extracts A alone and writes exactly one vector
\* for it, yet to <destination>/epoch-<height>.json inside the destination
\* directory and not to the destination path itself.
C2_SameEndpoints ==
    SameEndpointsDone
        => /\ ExtractedTs = <<left>>
           /\ Len(written) = 1
           /\ WrittenTs = <<left>>
           /\ written[1].path =
                Append(opts.file, [prefix |-> "epoch-",
                                   height |-> EpochString(Height(left)),
                                   ext |-> ".json"])
           /\ written[1].path # opts.file
           /\ destStat = "dir"

C2_Witness == SameEndpointsDone /\ left = 2 /\ Len(written) = 1

\* C3: when a parent lookup of the range walk fails, extractTipsetRange
\* returns an error to its caller.
C3_ReturnsError == lookupFailed => ret = "error"

\* C4: with an unsupported retention strategy doExtractTipset returns an error
\* before any chain-data client call and before any file or directory is made.
C4_RetainRejectedFirst ==
    opts.retain # "accessed-cids"
        => /\ clientCalls = 0
           /\ fsCreates = 0
           /\ extracted = <<>>
           /\ written = <<>>
           /\ pc \in {"doExtract", "done"}
           /\ pc = "done" => ret = "error"

C4_Witness ==
    /\ opts.retain # "accessed-cids"
    /\ ParseTipSetRef(opts.tsk) # NilTs
    /\ pc = "done"
    /\ ret = "error"

\* C5: whenever extractTipset has returned, the tracing session it started
\* has been stopped.
C5_TracingStopped == (pc \notin EtPcs /\ et.starts > 0) => ~et.tracing

\* C6: every vector written carries an archive stream that went through a
\* successful archive write, flush and close, in that order; an extractTipset
\* call in which one of the three failed returned an error and wrote no vector.
GzComplete == <<"write", "flush", "close">>

C6_ArchiveCompleteBeforeWrite ==
    /\ \A i \in 1..Len(written) : written[i].vector.car.stream = GzComplete
    /\ (pc \notin EtPcs /\ et.ts # NilTs /\ et.gz # GzComplete)
          => /\ et.err
             /\ \A i \in 1..Len(written) : written[i].path # et.path

C6_Witness ==
    /\ pc \notin EtPcs
    /\ et.gz = <<"write">>
    /\ et.err
    /\ Len(extracted) = 2
    /\ Len(written) = 1

(***************************************************************************)
(* Properties of the replay command                                        *)
(***************************************************************************)
DirMode == execFlags.file = "dir"

\* the report path execVectorDir derives for the i-th matched file
OutPathOf(i) == <<execFlags.out, OutFile(files[i])>>

C8_FailureReturned == (DirMode /\ xpc = "done" /\ failures # {}) => xret = "error"

\* C9: a variant that itself succeeds (no error returned, reporter not marked
\* by it) is reported as succeeded, whatever earlier variants did.
C9_OutcomePerVariant ==
    \A i \in 1..Len(runs) :
        (~runs[i].err /\ ~runs[i].marked) => runs[i].reported = "succeeded"

\* executeTestVector has returned to its caller
VectorReturned == xpc \in {"fileRet", "dirRet", "stdinRet"}

\* C10: for a vector of a supported class every declared variant is executed
\* exactly once, in declaration order, also after a variant failed.
C10_AllVariantsRun ==
    /\ (xpc = "variants" /\ tv.class \in {"message", "tipset"})
          => [i \in 1..Len(runs) |-> runs[i].variant] = [i \in 1..(vi - 1) |-> i]
    /\ (VectorReturned /\ tv.class \in {"message", "tipset"})
          => [i \in 1..Len(runs) |-> runs[i].variant] = [i \in 1..tv.variants |-> i]

C10_Witness ==
    /\ VectorReturned
    /\ tv.class = "tipset"
    /\ tv.variants = 2
    /\ Len(runs) = 2
    /\ runs[1].err
    /\ runs[1].marked

\* C11: a vector whose class is neither "message" nor "tipset" makes
\* executeTestVector return a non-nil error with no variant executed, whatever
\* the number of variants it declares (zero included).
C11_UnsupportedClassFails ==
    (VectorReturned /\ tv.class = "other") => (xerr /\ runs = <<>>)

StdinMode == execFlags.file = ""

\* the item at position i of the stream decoded as a test vector
IsVectorItem(i) == stream[i] \in Vectors

\* C12: in stdin streaming replay the vectors are executed one at a time in
\* stream order; end-of-stream returns nil after every preceding vector was
\* executed, and a decode error returns the error; in both cases nothing of
\* the stream is executed afterwards.
C12_StdinStream ==
    /\ StdinMode
          => /\ vectorsRun = [i \in 1..Len(vectorsRun) |-> i]
             /\ \A i \in 1..Len(vectorsRun) : IsVectorItem(i)
             /\ \A i \in 1..Len(stream) : ~IsVectorItem(i) => i = Len(stream)
    /\ (StdinMode /\ stream # <<>> /\ ~IsVectorItem(Len(stream)))
          => /\ xpc = "done"
             /\ Len(vectorsRun) = Len(stream) - 1
             /\ xret = IF stream[Len(stream)] = EndOfStream THEN "nil" ELSE "error"

C12_Witness ==
    /\ StdinMode
    /\ xpc = "done"
    /\ Len(stream) = 3
    /\ ~IsVectorItem(3)
    /\ stream[3] = Malformed
    /\ vectorsRun = <<1, 2>>
    /\ xret = "error"

\* the positions inside extractTipsetRange and the extractions it drives
RangePcs == {"loop", "loopRet", "finalRet"} \cup EtPcs

\* C13: in range mode extractTipsetRange is reached, and a tipset extracted,
\* only with the destination a directory (created first when it was absent);
\* a destination that exists and is no directory gives an error with no
\* tipset extracted or written.
C13_RangeDestIsDirectory ==
    Len(ss) = 2
        => /\ pc \in RangePcs => destStat = "dir"
           /\ extracted # <<>> => destStat = "dir"
           /\ destStat = "file"
                 => /\ extracted = <<>>
                    /\ written = <<>>
                    /\ pc = "done" => ret = "error"

C13_Witness ==
    /\ Len(ss) = 2
    /\ left # NilTs
    /\ right # NilTs
    /\ destStat = "file"
    /\ pc = "done"
    /\ ret = "error"
    /\ ~clientFailed

\* the reference is empty or holds more than one ".." separator
MalformedTsk == opts.tsk = <<>> \/ Len(Split(opts.tsk)) > 2

\* C14: with an empty reference or one of more than one ".." separator
\* doExtractTipset fails with an error, resolves nothing through the
\* chain-data client and extracts nothing.
C14_MalformedRefRejected ==
    MalformedTsk
        => /\ clientCalls = 0
           /\ extracted = <<>>
           /\ written = <<>>
           /\ pc \in {"doExtract", "done"}
           /\ pc = "done" => ret = "error"

C14_Witness ==
    /\ opts.retain = "accessed-cids"
    /\ opts.tsk = <<"1", ".", ".", "2", ".", ".", "3">>
    /\ pc = "done"
    /\ ret = "error"

\* an extractTipset call has returned nil
ExtractTipsetSucceeded == pc \notin EtPcs /\ et.ts # NilTs /\ ~et.err

\* C15: every vector written has exactly one apply tipset and exactly one
\* variant, whose epoch is the height of the tipset; the vector of a call
\* that succeeded has one receipt per result the engine applied, in
\* application order.
C15_VectorShape ==
    /\ \A i \in 1..Len(written) :
          LET v == written[i].vector
          IN  /\ v.class = "tipset"
              /\ Len(v.apply_tipsets) = 1
              /\ Len(v.variants) = 1
              /\ v.variants[1].epoch = Height(v.apply_tipsets[1].ts)
    /\ ExtractTipsetSucceeded
          => LET v == written[Len(written)].vector
                 a == et.result.applied
             IN  /\ written # <<>>
                 /\ v.apply_tipsets[1].ts = et.ts
                 /\ Len(v.receipts) = Len(a)
                 /\ \A k \in 1..Len(a) :
                       /\ v.receipts[k].exit_code = a[k].ExitCode
                       /\ v.receipts[k].gas_used = a[k].GasUsed

C15_Witness ==
    /\ pc = "done"
    /\ ret = "nil"
    /\ Len(ss) = 1
    /\ Len(written) = 1
    /\ written[1].vector.apply_tipsets[1].blocks = 1
    /\ Len(written[1].vector.receipts) = 2
    /\ Len(et.result.applied) = 2

\* the path <dir>/epoch-<height of t> with extension ext
EpochPath(t, ext) ==
    Append(opts.file, [prefix |-> "epoch-", height |-> EpochString(Height(t)), ext |-> ext])

\* C16: in range mode every extracted tipset, left included, goes to the path
\* <dir>/epoch-<height> of its own height, under one naming scheme for all
\* tipsets of the range.
C16_OneNamingScheme ==
    Len(ss) = 2
        => /\ \A i \in 1..Len(extracted) :
                 \E ext \in {"", ".json"} :
                     extracted[i].path = EpochPath(extracted[i].ts, ext)
           /\ \A i, j \in 1..Len(extracted) :
                 extracted[i].path[2].ext = extracted[j].path[2].ext

\* C17: execVectorDir never maps two distinct input files of the directory
\* to the same report path.
C17_DistinctReports ==
    DirMode => \A i, j \in 1..Len(outs) : i # j => outs[i] # outs[j]

\* C18: in an extractTipset call StartTracing comes before ExecuteTipset,
\* FinishTracing after it and before the archive is written, and a call that
\* succeeded made each of them exactly once and invoked the archive writer
\* exactly once, with the set FinishTracing returned as allow-list and the
\* pre-state and post-state roots of that execution as roots.
C18_TracingBracketsExecution ==
    /\ et.executed => et.starts = 1
    /\ et.finishes > 0 => (et.executed /\ et.finishes = 1 /\ ~et.tracing)
    /\ et.car # <<>> => (et.finishes = 1 /\ Len(et.car) = 1)
    /\ pc = "et_exec" => (et.tracing /\ et.finishes = 0)
    /\ ExtractTipsetSucceeded
          => /\ et.starts = 1
             /\ et.executed
             /\ et.finishes = 1
             /\ Len(et.car) = 1
             /\ et.car[1].allow = et.accessed
             /\ et.accessed = et.traced
             /\ et.car[1].roots = <<ParentState(et.ts), PostStateRoot(et.ts)>>
             /\ et.result.post = PostStateRoot(et.ts)
             /\ written[Len(written)].vector.car.archive = et.car

C18_Witness ==
    /\ ExtractTipsetSucceeded
    /\ pc = "done"
    /\ ret = "nil"
    /\ et.starts = 1
    /\ et.finishes = 1
    /\ Len(et.car) = 1
    /\ et.accessed # {}

\* C19: extractTipsetRange never extracts a tipset below the height of left,
\* whatever the resolved endpoints are.
C19_NeverBelowLeft ==
    (Len(ss) = 2 /\ left # NilTs)
        => \A i \in 1..Len(extracted) : Height(extracted[i].ts) >= Height(left)

\* some variant of the vector under execution returned an error
SomeVariantErred == \E i \in 1..Len(runs) : runs[i].err

\* C20: executeTestVector returns a non-nil error whenever the execution of
\* some variant returned one, so single-file replay fails in that case.
C20_VariantErrorKept ==
    /\ (VectorReturned /\ SomeVariantErred) => xerr
    /\ (execFlags.file = "vector" /\ xpc = "done" /\ SomeVariantErred)
          => xret = "error"

(***************************************************************************)
(* Properties of SealPreCommitResp.GetCids                                 *)
(***************************************************************************)
\* the conversion of resp.CommR to a CID fails
CommRConversionFails == ReplicaCommitmentV1ToCID(resp.CommR).err # "nil"

\* the conversion of resp.CommD to a CID fails
CommDConversionFails == DataCommitmentV1ToCID(resp.CommD).err # "nil"

\* C21: GetCids returns a non-nil error whenever the conversion of CommR or
\* of CommD to a CID fails, and returns the sealed/unsealed pair with a nil
\* error only when both conversions succeeded.
C21_ConversionFailureReturned ==
    gpc = "done" =>
        /\ (CommRConversionFails \/ CommDConversionFails) => gret.err # "nil"
        /\ (gret.err = "nil" /\ gret.cids # NoSectorCids)
              => (~CommRConversionFails /\ ~CommDConversionFails)

====
